---- MODULE Spec2Model ----
(***************************************************************************)
(* Grounded retrieval of the telecom support agents:                       *)
(*   retriever/retriever.py   KBRetriever (fetch/dedup, boosts, top-k,     *)
(*                            NO_CONTEXT decision, sources view)           *)
(*   agents/technical_agent.py  _compose_context, _format_sources,         *)
(*                            TechnicalAgent.run                           *)
(*                                                                         *)
(* Representation.                                                         *)
(*  - A Python str is a sequence of one-character strings.  NoneStr is     *)
(*    Python's None where a str is expected.                               *)
(*  - A score is an integer number of millionths (Unit = 1.0); raw scores, *)
(*    the threshold and the boosts are configured in hundredths.  The      *)
(*    arithmetic is exact; the rounding of binary floats is not modelled.  *)
(*  - page_content is [lead, core, trail]: the lengths of its leading      *)
(*    whitespace, of the text between, and of its trailing whitespace.     *)
(*  - last_updated is [iso, ts]: whether datetime.fromisoformat accepts    *)
(*    the string, and the timestamp it then yields.                        *)
(***************************************************************************)
EXTENDS Integers, Sequences, FiniteSets, TLC

\* The longest candidate list the index adapter returns in the model.
MaxCands == 3

\* one hundredth and 1.0, in millionths
Cent == 100 * 100
Unit == 100 * Cent

Min(a, b) == IF a < b THEN a ELSE b
Max(a, b) == IF a > b THEN a ELSE b

Range(s) == { s[i] : i \in 1..Len(s) }

NoneStr == <<"None">>
StrNone == <<"N", "o", "n", "e">>

\* str(x) as an f-string renders it
Str(x) == IF x = NoneStr THEN StrNone ELSE x

\* dict.get(key) / dict.get(key, default)
Get(meta, key, default) == IF key \in DOMAIN meta THEN meta[key] ELSE default

RECURSIVE Join(_, _)
\* sep.join(parts)
Join(parts, sep) ==
    IF Len(parts) = 0 THEN <<>>
    ELSE IF Len(parts) = 1 THEN parts[1]
    ELSE parts[1] \o sep \o Join(Tail(parts), sep)

\* items[:k], Python slice semantics (a negative k counts from the end)
SliceTo(items, k) ==
    IF k >= 0 THEN SubSeq(items, 1, Min(k, Len(items)))
    ELSE SubSeq(items, 1, Max(0, Len(items) + k))

RECURSIVE SumSeq(_)
SumSeq(s) == IF Len(s) = 0 THEN 0 ELSE Head(s) + SumSeq(Tail(s))

(***************************************************************************)
(* The knowledge base chunks of the model (langchain Documents).           *)
(***************************************************************************)
DateValid   == [iso |-> TRUE, ts |-> 1700000000]
DateInvalid == [iso |-> FALSE, ts |-> 0]

DocA1 == [metadata |-> [doc_id |-> <<"a">>, section_path |-> << <<"s">> >>,
                        title |-> <<"T">>, path |-> <<"k", "/", "a">>,
                        version |-> <<"1">>, last_updated |-> DateValid],
          page_content |-> [lead |-> 0, core |-> 3972, trail |-> 1]]
\* another chunk of the same section of the same document
DocA2 == [metadata |-> [doc_id |-> <<"a">>, section_path |-> << <<"s">> >>,
                        title |-> <<"T">>, path |-> <<"k", "/", "a">>,
                        version |-> <<"1">>, last_updated |-> DateValid],
          page_content |-> [lead |-> 1, core |-> 10, trail |-> 0]]
\* a procedural subsection, no date
DocB  == [metadata |-> [doc_id |-> <<"b">>,
                        section_path |-> << <<"x">>, <<"S", "t", "e", "p">> >>,
                        title |-> <<"U">>, path |-> <<"k", "/", "b">>,
                        version |-> <<"2">>],
          page_content |-> [lead |-> 0, core |-> 3965, trail |-> 0]]
\* no section, unparseable date, a body longer than the default budget
DocC  == [metadata |-> [doc_id |-> <<"c">>, section_path |-> <<>>,
                        title |-> <<"V">>, path |-> <<"c">>,
                        version |-> <<"1">>, last_updated |-> DateInvalid],
          page_content |-> [lead |-> 0, core |-> 9000, trail |-> 0]]
Docs == {DocA1, DocA2, DocB, DocC}

\* None where a list of str is expected (a null section_path)
NoneList == <<NoneStr>>

\* a date before 1970: fromisoformat accepts it, its timestamp is negative
DateOld == [iso |-> TRUE, ts |-> -315619200]

\* a procedural section, a parseable date before 1970
DocOld  == [metadata |-> [doc_id |-> <<"o">>,
                          section_path |-> << <<"S", "T", "E", "P", "s">> >>,
                          title |-> <<"O">>, path |-> <<"k", "/", "o">>,
                          version |-> <<"1">>, last_updated |-> DateOld],
            page_content |-> [lead |-> 0, core |-> 10, trail |-> 0]]
\* a verification section, a recent date
DocVer  == [metadata |-> [doc_id |-> <<"v">>,
                          section_path |-> << <<"x">>,
                              <<"V", "e", "r", "i", "f", "i", "c", "a", "t", "i", "o", "n">> >>,
                          title |-> <<"R">>, path |-> <<"k", "/", "v">>,
                          version |-> <<"1">>, last_updated |-> DateValid],
            page_content |-> [lead |-> 0, core |-> 10, trail |-> 0]]
\* "step" only across two entries of the section path, a recent date
DocSplit == [metadata |-> [doc_id |-> <<"p">>,
                           section_path |-> << <<"s", "t", "e">>, <<"p">> >>,
                           title |-> <<"P">>, path |-> <<"k", "/", "p">>,
                           version |-> <<"1">>, last_updated |-> DateValid],
             page_content |-> [lead |-> 0, core |-> 10, trail |-> 0]]
\* metadata = {}
DocBare == [metadata |-> [k \in {} |-> <<>>],
            page_content |-> [lead |-> 0, core |-> 10, trail |-> 0]]
\* section_path present and null
DocNull == [metadata |-> [doc_id |-> <<"n">>, section_path |-> NoneList,
                          title |-> <<"N">>, path |-> <<"k", "/", "n">>,
                          version |-> <<"1">>],
            page_content |-> [lead |-> 0, core |-> 10, trail |-> 0]]

\* a two-entry section path, and the one-entry path that joins to the same
\* text with "/", in the same document
DocPathTwo == [metadata |-> [doc_id |-> <<"q">>,
                             section_path |-> << <<"x">>, <<"y">> >>,
                             title |-> <<"Q">>, path |-> <<"k", "/", "q">>,
                             version |-> <<"1">>],
               page_content |-> [lead |-> 0, core |-> 10, trail |-> 0]]
DocPathOne == [metadata |-> [doc_id |-> <<"q">>,
                             section_path |-> << <<"x", "/", "y">> >>,
                             title |-> <<"Q">>, path |-> <<"k", "/", "q">>,
                             version |-> <<"1">>],
               page_content |-> [lead |-> 0, core |-> 20, trail |-> 0]]

\* The longest candidate list of chunks with unusual metadata.
MaxMetaCands == 2

\* candidates whose metadata is unusual, missing or malformed
MetaPool ==
    { [doc |-> DocOld, score |-> 80], [doc |-> DocVer, score |-> 80],
      [doc |-> DocSplit, score |-> 80], [doc |-> DocBare, score |-> 70],
      [doc |-> DocNull, score |-> 90], [doc |-> DocC, score |-> 60],
      [doc |-> DocPathTwo, score |-> 75], [doc |-> DocPathOne, score |-> 65] }

\* What the index can return for one slot: (Document, raw score in hundredths).
\* Raw scores below 0 and above 1 occur, as do equal scores and a duplicate
\* section ranked below its sibling with a higher score.
AdapterPool ==
    { [doc |-> DocA1, score |-> 90], [doc |-> DocA2, score |-> 95],
      [doc |-> DocB, score |-> 90],
      [doc |-> DocC, score |-> -20], [doc |-> DocC, score |-> 150] }

SeqsUpTo(S, n) == UNION { [1..k -> S] : k \in 0..n }

\* similarity_search_with_score(query, k): at most k candidates, or a failure
AdapterErrors == {"EmbeddingError", "IndexUnavailableError"}
AdapterOk(k)  == { [raised |-> "none", candidates |-> cs] :
                     cs \in SeqsUpTo(AdapterPool, Min(MaxCands, Max(k, 0))) }
AdapterFail   == { [raised |-> e, candidates |-> <<>>] : e \in AdapterErrors }
AdapterResponses(k) == AdapterOk(k) \cup AdapterFail

(***************************************************************************)
(* RetrieverConfig                                                         *)
(***************************************************************************)
TopKs      == {2, 8}
FetchKs    == {24}
Thresholds == {0, 50}
MinHitsSet == {0, 1, 3}
FreshnessBoosts   == {0, 10}
StepSectionBoosts == {0, 8}

RetrieverConfig ==
    [top_k : TopKs, fetch_k : FetchKs, threshold : Thresholds,
     min_hits : MinHitsSet, freshness_boost : FreshnessBoosts,
     step_section_boost : StepSectionBoosts]

\* retrieve's top_k argument: <<>> is None, <<k>> is the int k
TopKArgs == {<<>>, <<0>>, <<1>>}

(***************************************************************************)
(* retriever.py                                                            *)
(***************************************************************************)
\* _parse_date: 0.0 for an absent, empty or unparseable date
ParseDate(meta) ==
    IF "last_updated" \notin DOMAIN meta THEN 0
    ELSE IF ~meta.last_updated.iso THEN 0
    ELSE meta.last_updated.ts

\* the dedup key of _mmr_fetch
DedupKey(doc) ==
    Str(Get(doc.metadata, "doc_id", NoneStr)) \o <<"|">>
        \o Join(Get(doc.metadata, "section_path", <<>>), <<"/">>)

RECURSIVE PickFrom(_, _, _, _)
PickFrom(candidates, i, seen_keys, picked) ==
    IF i > Len(candidates) THEN picked
    ELSE LET key == DedupKey(candidates[i].doc) IN
         IF key \in seen_keys
         THEN PickFrom(candidates, i + 1, seen_keys, picked)
         ELSE PickFrom(candidates, i + 1, seen_keys \cup {key},
                       Append(picked, candidates[i]))

\* a dedup that keeps the best-scoring chunk of a section, not the first
PickBestScore(candidates) ==
    LET better(i, j) == /\ DedupKey(candidates[i].doc) = DedupKey(candidates[j].doc)
                        /\ \/ candidates[i].score > candidates[j].score
                           \/ candidates[i].score = candidates[j].score /\ i < j
        keep == { j \in 1..Len(candidates) :
                    ~\E i \in 1..Len(candidates) : i # j /\ better(i, j) }
        F[n \in 0..Len(candidates)] ==
            IF n = 0 THEN <<>>
            ELSE IF n \in keep THEN Append(F[n - 1], candidates[n]) ELSE F[n - 1]
    IN F[Len(candidates)]

\* the loop of _mmr_fetch over the adapter's candidates
Pick(candidates) == PickFrom(candidates, 1, {}, <<>>)

\* '/'.join(section_path) of the key raises TypeError on a null section_path
KeyRaises(doc) == Get(doc.metadata, "section_path", <<>>) = NoneList

\* _mmr_fetch: one adapter query, whose failure is not caught; the loop
\* computes the key of every candidate
MmrFetch(adapter) ==
    LET raised == IF adapter.raised # "none" THEN adapter.raised
                  ELSE IF \E i \in 1..Len(adapter.candidates) :
                             KeyRaises(adapter.candidates[i].doc)
                       THEN "TypeError"
                       ELSE "none"
    IN [raised |-> raised, calls |-> 1,
        picked |-> IF raised = "none" THEN Pick(adapter.candidates) ELSE <<>>]

\* str.__contains__
Contains(s, tag) ==
    \E i \in 1..(Len(s) - Len(tag) + 1) : SubSeq(s, i, i + Len(tag) - 1) = tag

LowerChar(ch) ==
    CASE ch = "S" -> "s" [] ch = "T" -> "t" [] ch = "E" -> "e" [] ch = "P" -> "p"
      [] ch = "V" -> "v" [] OTHER -> ch
Lower(s) == [i \in 1..Len(s) |-> LowerChar(s[i])]

TagStep == <<"s", "t", "e", "p">>
TagVerification == <<"v", "e", "r", "i", "f", "i", "c", "a", "t", "i", "o", "n">>

Clamp01(s) == Max(0, Min(100, s))

\* the boosts applied to a score that is capped at 1.0 but not floored at 0.0
BoostedScoreNoFloor(c, doc, s) ==
    LET meta == doc.metadata
        capped == Min(100, s) * Cent
        fresh == IF c.freshness_boost > 0 /\ ParseDate(meta) > 0
                 THEN (capped * (100 + c.freshness_boost)) \div 100
                 ELSE capped
        section == Lower(Join(Get(meta, "section_path", <<>>), <<" ">>))
    IN IF Contains(section, TagStep) \/ Contains(section, TagVerification)
       THEN (fresh * (100 + c.step_section_boost)) \div 100
       ELSE fresh

\* the score of one item in _apply_boosts, in millionths
BoostedScoreCaseSensitive(c, doc, s) ==
    LET meta == doc.metadata
        clamped == Clamp01(s) * Cent
        fresh == IF c.freshness_boost > 0 /\ ParseDate(meta) > 0
                 THEN (clamped * (100 + c.freshness_boost)) \div 100
                 ELSE clamped
        section == Join(Get(meta, "section_path", <<>>), <<" ">>)
    IN IF Contains(section, TagStep) \/ Contains(section, TagVerification)
       THEN (fresh * (100 + c.step_section_boost)) \div 100
       ELSE fresh

BoostedScore(c, doc, s) ==
    LET meta == doc.metadata
        clamped == Clamp01(s) * Cent
        fresh == IF c.freshness_boost > 0 /\ ParseDate(meta) > 0
                 THEN (clamped * (100 + c.freshness_boost)) \div 100
                 ELSE clamped
        section == Lower(Join(Get(meta, "section_path", <<>>), <<" ">>))
    IN IF Contains(section, TagStep) \/ Contains(section, TagVerification)
       THEN (fresh * (100 + c.step_section_boost)) \div 100
       ELSE fresh

RECURSIVE InsertDesc(_, _)
\* x goes after every element whose score is >= its own
InsertDesc(sorted, x) ==
    IF Len(sorted) = 0 THEN <<x>>
    ELSE IF Head(sorted).score >= x.score
         THEN <<Head(sorted)>> \o InsertDesc(Tail(sorted), x)
         ELSE <<x>> \o sorted

RECURSIVE InsertDescUnstable(_, _)
\* x goes before the elements whose score equals its own
InsertDescUnstable(sorted, x) ==
    IF Len(sorted) = 0 THEN <<x>>
    ELSE IF Head(sorted).score > x.score
         THEN <<Head(sorted)>> \o InsertDescUnstable(Tail(sorted), x)
         ELSE <<x>> \o sorted

RECURSIVE SortWith(_, _)
SortWith(items, n) ==
    IF n = 0 THEN <<>> ELSE InsertDesc(SortWith(items, n - 1), items[n])

RECURSIVE SortUnstableWith(_, _)
SortUnstableWith(items, n) ==
    IF n = 0 THEN <<>>
    ELSE InsertDescUnstable(SortUnstableWith(items, n - 1), items[n])

SortDescUnstable(items) == SortUnstableWith(items, Len(items))

\* list.sort(key=score, reverse=True): descending and stable
SortDesc(items) == SortWith(items, Len(items))

\* _apply_boosts: clamp, boost, re-rank
ApplyBoosts(c, items) ==
    SortDesc([i \in 1..Len(items) |->
                [doc |-> items[i].doc,
                 score |-> BoostedScore(c, items[i].doc, items[i].score)]])

\* a decision that also rejects a mean equal to the threshold
NoContextInclusive(c, items) ==
    LET scores == [i \in 1..Len(items) |-> items[i].score] IN
    \/ Len(items) < c.min_hits
    \/ SumSeq(scores) <= c.threshold * Cent * Max(1, Len(scores))

\* a decision whose count test is reversed
NoContextReversedCount(c, items) ==
    LET scores == [i \in 1..Len(items) |-> items[i].score] IN
    \/ Len(items) > c.min_hits
    \/ SumSeq(scores) < c.threshold * Cent * Max(1, Len(scores))

\* the NO_CONTEXT decision of retrieve (step 4); sum/len < threshold is
\* compared after multiplying both sides by max(1, len) > 0
NoContext(c, items) ==
    LET scores == [i \in 1..Len(items) |-> items[i].score] IN
    \/ Len(items) < c.min_hits
    \/ SumSeq(scores) < c.threshold * Cent * Max(1, Len(scores))

RECURSIVE SplitFrom(_, _, _, _)
SplitFrom(s, sep, i, cur) ==
    IF i > Len(s) THEN <<cur>>
    ELSE IF s[i] = sep THEN <<cur>> \o SplitFrom(s, sep, i + 1, <<>>)
    ELSE SplitFrom(s, sep, i + 1, Append(cur, s[i]))

\* str.split(sep) for a one-character separator
Split(s, sep) == SplitFrom(s, sep, 1, <<>>)

\* pathlib.Path(p).name: the last non-empty component, "" when there is none
PathName(p) ==
    LET segs == Split(p, "/")
        idx  == { i \in 1..Len(segs) : segs[i] # <<>> }
    IN IF idx = {} THEN <<>>
       ELSE segs[CHOOSE i \in idx : \A j \in idx : j <= i]

\* x or None, for a str x
OrNone(x) == IF x = <<>> THEN NoneStr ELSE x

\* round(score, 4) on millionths
Round4(score) == ((score + 50) \div 100) * 100

\* KBRetriever._to_source_dict
ToSourceDict(doc, score) ==
    LET m == doc.metadata IN
    [title   |-> Get(m, "title", NoneStr),
     section |-> OrNone(Join(Get(m, "section_path", <<>>), <<" ", "/", " ">>)),
     file    |-> OrNone(PathName(Get(m, "path", <<>>))),
     version |-> Get(m, "version", NoneStr),
     score   |-> Round4(score)]

\* the configured top_k whatever the argument
EffectiveTopKIgnoresArg(c, top_k_arg) == c.top_k

\* top_k or self.cfg.top_k: None and 0 are falsy
EffectiveTopK(c, top_k_arg) ==
    IF top_k_arg = <<>> \/ top_k_arg = <<0>> THEN c.top_k ELSE top_k_arg[1]

NoRetrieval ==
    [returned |-> FALSE, raised |-> "none", adapter_calls |-> 0, top_k |-> 0,
     fetched |-> <<>>, boosted |-> <<>>, docs |-> <<>>, scores |-> <<>>,
     sources |-> <<>>, no_context |-> FALSE, applied_threshold |-> 0]

\* retrieve that swallows an adapter failure and answers with an empty result
RetrieveCatching(c, top_k_arg, adapter) ==
    LET fetch == MmrFetch(adapter)
        items == SliceTo(ApplyBoosts(c, fetch.picked), EffectiveTopK(c, top_k_arg))
    IN [returned |-> TRUE, raised |-> "none", adapter_calls |-> fetch.calls,
        top_k |-> EffectiveTopK(c, top_k_arg),
        fetched |-> fetch.picked, boosted |-> ApplyBoosts(c, fetch.picked),
        docs |-> [i \in 1..Len(items) |-> items[i].doc],
        scores |-> [i \in 1..Len(items) |-> items[i].score],
        sources |-> [i \in 1..Len(items) |-> ToSourceDict(items[i].doc, items[i].score)],
        no_context |-> NoContext(c, items), applied_threshold |-> c.threshold]

\* KBRetriever.retrieve from line 151 on, top_k being the local of line 150:
\* the returned dict with the locals of the call (fetched: items after
\* step 1, boosted: items after step 2)
RetrieveWithTopK(c, top_k, adapter) ==
    LET fetch == MmrFetch(adapter)
    IN IF fetch.raised # "none"
       THEN [NoRetrieval EXCEPT !.raised = fetch.raised,
                                !.adapter_calls = fetch.calls, !.top_k = top_k]
       ELSE LET boosted == ApplyBoosts(c, fetch.picked)
                items   == SliceTo(boosted, top_k)
            IN [returned |-> TRUE, raised |-> "none",
                adapter_calls |-> fetch.calls, top_k |-> top_k,
                fetched |-> fetch.picked, boosted |-> boosted,
                docs |-> [i \in 1..Len(items) |-> items[i].doc],
                scores |-> [i \in 1..Len(items) |-> items[i].score],
                sources |-> [i \in 1..Len(items) |->
                               ToSourceDict(items[i].doc, items[i].score)],
                no_context |-> NoContext(c, items),
                applied_threshold |-> c.threshold]

\* KBRetriever.retrieve
Retrieve(c, top_k_arg, adapter) ==
    RetrieveWithTopK(c, EffectiveTopK(c, top_k_arg), adapter)

\* a retrieve that keeps the top_k of the call in the configuration
CfgStoringTopK(c, top_k_arg) == [c EXCEPT !.top_k = EffectiveTopK(c, top_k_arg)]

\* self.cfg after a retrieve call: the call assigns to locals only
CfgAfterRetrieve(c, top_k_arg) == c

(***************************************************************************)
(* technical_agent.py                                                      *)
(***************************************************************************)
\* The budget _compose_context has when run calls it (its default).
DefaultMaxChars == 8000

\* the documents and budgets of a direct call of _compose_context
ComposeDocs == {DocA1, DocA2, DocB}
MaxCharsSet == {0, 30, 4000, 4050, DefaultMaxChars}

SourcePrefix == <<"[", "S", "O", "U", "R", "C", "E", "]", " ">>
\* " — ": the dash is one character
DashSep == <<" ", "-", " ">>

\* ' / '.join(section_path) or '-'
SectionLabel(meta) ==
    LET joined == Join(Get(meta, "section_path", <<>>), <<" ", "/", " ">>)
    IN IF joined = <<>> THEN <<"-">> ELSE joined

\* the header line of one chunk in _compose_context
Header(doc) ==
    LET meta == doc.metadata IN
    SourcePrefix \o Str(Get(meta, "title", NoneStr)) \o DashSep
        \o SectionLabel(meta) \o DashSep \o Str(Get(meta, "path", NoneStr))
        \o <<" ", "(", "v", ":">> \o Str(Get(meta, "version", NoneStr)) \o <<")">>

\* len(header + "\n" + body + "\n") with body = page_content.strip()
ChunkLen(doc) == Len(Header(doc)) + 1 + doc.page_content.core + 1

RECURSIVE ComposeFromSkipping(_, _, _, _, _)
\* a loop that skips a chunk that does not fit and goes on with the next
ComposeFromSkipping(sources, max_chars, i, used, parts) ==
    IF i > Len(sources) THEN parts
    ELSE IF used + ChunkLen(sources[i].doc) > max_chars
         THEN ComposeFromSkipping(sources, max_chars, i + 1, used, parts)
    ELSE ComposeFromSkipping(sources, max_chars, i + 1,
                             used + ChunkLen(sources[i].doc),
                             Append(parts, sources[i].doc))

RECURSIVE ComposeFrom(_, _, _, _, _)
\* the loop of _compose_context: parts holds the documents whose chunk was added
ComposeFrom(sources, max_chars, i, used, parts) ==
    IF i > Len(sources) THEN parts
    ELSE IF used + ChunkLen(sources[i].doc) > max_chars THEN parts
    ELSE ComposeFrom(sources, max_chars, i + 1,
                     used + ChunkLen(sources[i].doc), Append(parts, sources[i].doc))

\* len("\n\n".join(parts))
JoinedLen(parts) ==
    SumSeq([i \in 1..Len(parts) |-> ChunkLen(parts[i])])
        + 2 * Max(0, Len(parts) - 1)

\* _compose_context: the documents in the block and the length of the block
ComposeContext(sources, max_chars) ==
    LET parts == ComposeFrom(sources, max_chars, 1, 0, <<>>)
    IN [parts |-> parts, length |-> JoinedLen(parts)]

\* path.split("/")[-1]
LastSegment(p) == LET segs == Split(p, "/") IN segs[Len(segs)]

\* one line of _format_sources
SourceLine(doc) ==
    LET m == doc.metadata
        path == Get(m, "path", NoneStr)
        version == Get(m, "version", NoneStr)
    IN [title   |-> Str(Get(m, "title", NoneStr)),
        section |-> SectionLabel(m),
        file    |-> LastSegment(IF path = NoneStr THEN <<>> ELSE path),
        version |-> IF version = NoneStr THEN <<>> ELSE version]

\* _format_sources: one line per wrapped source
FormatSources(sources) == [i \in 1..Len(sources) |-> SourceLine(sources[i].doc)]

\* A text of the language model is a sequence of tokens; kind is "text",
\* "ws" (whitespace), "Sources:" or "[SOURCES]"; "block" is a sources block.
Tok(kind) == [kind |-> kind, lines |-> <<>>]
BlockTok(lines) == [kind |-> "block", lines |-> lines]

LLMTexts ==
    { <<Tok("text"), Tok("ws")>>,
      <<Tok("text"), Tok("Sources:"), Tok("text")>>,
      <<Tok("text"), Tok("Sources:"), Tok("[SOURCES]")>>,
      <<Tok("text"), Tok("[SOURCES]"), Tok("ws")>> }

RECURSIVE RStrip(_)
RStrip(text) ==
    IF Len(text) > 0 /\ text[Len(text)].kind = "ws"
    THEN RStrip(SubSeq(text, 1, Len(text) - 1)) ELSE text

RECURSIVE ReplacePlaceholder(_, _)
\* text.replace("[SOURCES]", "\n" + sources_block)
ReplacePlaceholder(text, block) ==
    IF Len(text) = 0 THEN <<>>
    ELSE (IF Head(text).kind = "[SOURCES]" THEN <<Tok("ws"), BlockTok(block)>>
          ELSE <<Head(text)>>) \o ReplacePlaceholder(Tail(text), block)

\* a reply assembly that fills the placeholder and never appends
EnsureSourcesPlaceholderOnly(llm_text, sources_block) ==
    ReplacePlaceholder(llm_text, sources_block)

\* lines 116-121 of run: append the sources when the text lacks "Sources:",
\* fill the placeholder otherwise
EnsureSources(llm_text, sources_block) ==
    IF \A i \in 1..Len(llm_text) : llm_text[i].kind # "Sources:"
    THEN RStrip(llm_text) \o <<Tok("ws"), Tok("Sources:"), Tok("ws"),
                                BlockTok(sources_block)>>
    ELSE ReplacePlaceholder(llm_text, sources_block)

ClarificationReply == <<Tok("clarify")>>

NoAgentRun ==
    [returned |-> FALSE, raised |-> "none", llm_calls |-> 0, llm_text |-> <<>>,
     context |-> [parts |-> <<>>, length |-> 0],
     reply |-> <<>>, sources |-> <<>>, no_context |-> FALSE]

\* the state-friendly source of run (lines 124-133)
FriendlySource(doc, score) ==
    LET m == doc.metadata
        path == Get(m, "path", NoneStr)
    IN [title   |-> Get(m, "title", NoneStr),
        section |-> OrNone(Join(Get(m, "section_path", <<>>), <<" ", "/", " ">>)),
        file    |-> LastSegment(IF path = NoneStr THEN <<>> ELSE path),
        version |-> Get(m, "version", NoneStr),
        score   |-> score]

\* a run that lists only the sources whose chunk is in the context block
AgentRunContextSources(ret, llm_text) ==
    IF ~ret.returned THEN [NoAgentRun EXCEPT !.raised = ret.raised]
    ELSE LET source_wrapped == [i \in 1..Len(ret.docs) |->
                                  [doc |-> ret.docs[i], score |-> ret.scores[i]]]
             context_text == ComposeContext(source_wrapped, DefaultMaxChars)
         IN IF ret.no_context \/ Len(ret.docs) = 0
            THEN [NoAgentRun EXCEPT !.returned = TRUE, !.reply = ClarificationReply,
                                    !.no_context = TRUE]
            ELSE [returned |-> TRUE, raised |-> "none", llm_calls |-> 1,
                  llm_text |-> llm_text,
                  context |-> context_text,
                  reply |-> llm_text,
                  sources |-> [i \in 1..Len(context_text.parts) |->
                                 FriendlySource(ret.docs[i], ret.scores[i])],
                  no_context |-> FALSE]

\* a run that decides on the retriever's flag alone
AgentRunFlagOnly(ret, llm_text) ==
    IF ~ret.returned THEN [NoAgentRun EXCEPT !.raised = ret.raised]
    ELSE LET source_wrapped == [i \in 1..Len(ret.docs) |->
                                  [doc |-> ret.docs[i], score |-> ret.scores[i]]]
         IN IF ret.no_context
            THEN [NoAgentRun EXCEPT !.returned = TRUE, !.reply = ClarificationReply,
                                    !.no_context = TRUE]
            ELSE [returned |-> TRUE, raised |-> "none", llm_calls |-> 1,
                  llm_text |-> llm_text,
                  context |-> ComposeContext(source_wrapped, DefaultMaxChars),
                  reply |-> llm_text,
                  sources |-> [i \in 1..Len(ret.docs) |->
                                 FriendlySource(ret.docs[i], ret.scores[i])],
                  no_context |-> FALSE]

\* TechnicalAgent.run after its retrieve call returned ret; llm_text is what
\* the language model answers when it is invoked
AgentRun(ret, llm_text) ==
    IF ~ret.returned THEN [NoAgentRun EXCEPT !.raised = ret.raised]
    ELSE LET source_wrapped == [i \in 1..Len(ret.docs) |->
                                  [doc |-> ret.docs[i], score |-> ret.scores[i]]]
         IN IF ret.no_context \/ Len(ret.docs) = 0
            THEN [NoAgentRun EXCEPT !.returned = TRUE, !.reply = ClarificationReply,
                                    !.no_context = TRUE]
            ELSE LET context_text == ComposeContext(source_wrapped, DefaultMaxChars)
                     sources_block == FormatSources(source_wrapped)
                     text == EnsureSources(llm_text, sources_block)
                 IN [returned |-> TRUE, raised |-> "none", llm_calls |-> 1,
                     llm_text |-> llm_text,
                     context |-> context_text, reply |-> text,
                     sources |-> [i \in 1..Len(ret.docs) |->
                                    FriendlySource(ret.docs[i], ret.scores[i])],
                     no_context |-> FALSE]

(***************************************************************************)
(* The state machine: one engine, one caller.  A call runs to completion   *)
(* (the engine is synchronous); the caller then takes the outcome.         *)
(***************************************************************************)
VARIABLES
    cfg,        \* KBRetriever.cfg
    pc,         \* "idle" | "returned"
    op,         \* the call that ran last: "none", "retrieve", "run", "compose"
    adapter,    \* what the index adapter answered in that call
    top_k_arg,  \* retrieve's top_k argument
    max_chars,  \* _compose_context's max_chars argument
    retr,       \* the outcome of retrieve
    agent,      \* the outcome of TechnicalAgent.run
    ctx_in,     \* the sources given to _compose_context
    ctx,        \* the outcome of _compose_context
    threads,    \* concurrent callers of retrieve: each one's call and locals
    router,     \* agents/router_agent.py: the state and outcome of a route call
    graph,      \* graph.py: the run of the support graph
    billing,    \* agents/billing_agent.py: the run of the billing node
    refunds     \* tools/billing_tools.py: _CASE_COUNTER and the calls made

vars == <<cfg, pc, op, adapter, top_k_arg, max_chars, retr, agent, ctx_in, ctx,
          threads, router, graph, billing, refunds>>

\* the parts of the system a specification of another part leaves alone
engine == <<pc, op, adapter, top_k_arg, max_chars, retr, agent, ctx_in, ctx>>
others == <<threads, router, graph, billing, refunds>>

IdleThreads == <<>>
IdleRouter  ==
    [pc |-> "idle", history |-> <<>>, last_agent |-> "None",
     response |-> [kind |-> "none"], raised |-> "none",
     classification |-> [category |-> "", confidence |-> 0],
     route |-> "", confidence |-> 0]
\* create_initial_state: the state of a conversation before its first turn
IdleGraph   ==
    [node |-> "START", visited |-> <<>>,
     current_category |-> [t |-> "null", v |-> 0], last_agent |-> "None",
     turn_count |-> 0, response |-> [kind |-> "none"], raised |-> "none"]
IdleBilling ==
    [pc |-> "idle", user_id |-> "", llm_calls |-> 0, requested |-> <<>>,
     executed |-> <<>>, answer |-> "", raised |-> "none"]

\* itertools.count(10001)
FirstCaseId == 10001

\* tools/billing_tools.py as imported: no call of open_refund_case yet
IdleRefunds == [counter |-> FirstCaseId, calls |-> <<>>]

OthersIdle ==
    /\ threads = IdleThreads
    /\ router = IdleRouter
    /\ graph = IdleGraph
    /\ billing = IdleBilling
    /\ refunds = IdleRefunds

NoAdapter == [raised |-> "none", candidates |-> <<>>]
NoContextBlock == [parts |-> <<>>, length |-> 0]

EngineIdle ==
    /\ pc = "idle"
    /\ op = "none"
    /\ adapter = NoAdapter
    /\ top_k_arg = <<>>
    /\ max_chars = 0
    /\ retr = NoRetrieval
    /\ agent = NoAgentRun
    /\ ctx_in = <<>>
    /\ ctx = NoContextBlock

Init ==
    /\ cfg \in RetrieverConfig
    /\ pc = "idle"
    /\ op = "none"
    /\ adapter = NoAdapter
    /\ top_k_arg = <<>>
    /\ max_chars = 0
    /\ retr = NoRetrieval
    /\ agent = NoAgentRun
    /\ ctx_in = <<>>
    /\ ctx = NoContextBlock
    /\ OthersIdle

\* KBRetriever.retrieve(query, top_k)
RetrieveCall ==
    /\ pc = "idle"
    /\ \E k \in TopKArgs, a \in AdapterResponses(cfg.fetch_k) :
         /\ top_k_arg' = k
         /\ adapter' = a
         /\ retr' = Retrieve(cfg, k, a)
    /\ pc' = "returned"
    /\ op' = "retrieve"
    /\ UNCHANGED <<cfg, max_chars, agent, ctx_in, ctx, others>>

\* TechnicalAgent.run(state, user_message): retrieve with the configured top_k,
\* then the context, the language model and the sources
RunCall ==
    /\ pc = "idle"
    /\ \E a \in AdapterResponses(cfg.fetch_k), t \in LLMTexts :
         LET ret == Retrieve(cfg, <<>>, a) IN
         /\ adapter' = a
         /\ retr' = ret
         /\ agent' = AgentRun(ret, t)
    /\ top_k_arg' = <<>>
    /\ pc' = "returned"
    /\ op' = "run"
    /\ UNCHANGED <<cfg, max_chars, ctx_in, ctx, others>>

\* _compose_context(sources, max_chars) on wrapped sources
ComposeCall ==
    /\ pc = "idle"
    /\ \E ds \in SeqsUpTo(ComposeDocs, MaxCands), m \in MaxCharsSet :
         /\ ctx_in' = [i \in 1..Len(ds) |-> [doc |-> ds[i], score |-> 0]]
         /\ max_chars' = m
         /\ ctx' = ComposeContext([i \in 1..Len(ds) |-> [doc |-> ds[i], score |-> 0]], m)
    /\ pc' = "returned"
    /\ op' = "compose"
    /\ UNCHANGED <<cfg, adapter, top_k_arg, retr, agent, others>>

\* the caller takes the outcome; the engine keeps nothing of the call
Return ==
    /\ pc = "returned"
    /\ pc' = "idle"
    /\ op' = "none"
    /\ adapter' = NoAdapter
    /\ top_k_arg' = <<>>
    /\ max_chars' = 0
    /\ retr' = NoRetrieval
    /\ agent' = NoAgentRun
    /\ ctx_in' = <<>>
    /\ ctx' = NoContextBlock
    /\ UNCHANGED <<cfg, others>>

Next == RetrieveCall \/ RunCall \/ ComposeCall \/ Return

Spec == Init /\ [][Next]_vars

(***************************************************************************)
(* The same engine queried over an index whose chunks carry unusual,       *)
(* missing or malformed metadata, with per-call top_k values beyond the    *)
(* configured widths.                                                      *)
(***************************************************************************)
MetaTopKArgs == {<<>>, <<30>>, <<-1>>}

MetaResponses ==
    { [raised |-> "none", candidates |-> cs] : cs \in SeqsUpTo(MetaPool, MaxMetaCands) }

\* KBRetriever.retrieve(query, top_k) over the unusual index
MetaRetrieveCall ==
    /\ pc = "idle"
    /\ \E k \in MetaTopKArgs, a \in MetaResponses :
         /\ top_k_arg' = k
         /\ adapter' = a
         /\ retr' = Retrieve(cfg, k, a)
    /\ pc' = "returned"
    /\ op' = "retrieve"
    /\ UNCHANGED <<cfg, max_chars, agent, ctx_in, ctx, others>>

NextMeta == MetaRetrieveCall \/ Return

SpecMeta == Init /\ [][NextMeta]_vars

(***************************************************************************)
(* Properties                                                              *)
(***************************************************************************)
Retrieved == op \in {"retrieve", "run"} /\ retr.returned

\* the (doc_id, section_path) pair of a chunk
Pair(doc) == <<Get(doc.metadata, "doc_id", NoneStr),
               Get(doc.metadata, "section_path", <<>>)>>

\* C1: the fetch output holds at most one chunk per (doc_id, section_path)
\* pair, and a chunk it holds is the first candidate of its pair in the
\* adapter's order, whatever the scores of the later duplicates.
C1_DedupKeepsFirstRanked ==
    Retrieved =>
        LET f == retr.fetched
            cs == adapter.candidates
        IN /\ \A i, j \in 1..Len(f) : i # j => Pair(f[i].doc) # Pair(f[j].doc)
           /\ \A i \in 1..Len(f) :
                \E k \in 1..Len(cs) :
                    /\ cs[k] = f[i]
                    /\ \A e \in 1..(k - 1) : Pair(cs[e].doc) # Pair(f[i].doc)

\* a later duplicate with a higher raw score was dropped for the earlier one
C1_Witness ==
    /\ Retrieved
    /\ \E k1, k2 \in 1..Len(adapter.candidates) :
         /\ k1 < k2
         /\ Pair(adapter.candidates[k1].doc) = Pair(adapter.candidates[k2].doc)
         /\ adapter.candidates[k2].score > adapter.candidates[k1].score
         /\ adapter.candidates[k1] \in Range(retr.fetched)
         /\ adapter.candidates[k2] \notin Range(retr.fetched)

\* C2: the context block is never longer than max_chars, separators included
\* (a direct call of _compose_context, and the call run makes).
C2_ContextWithinBudget ==
    /\ op = "compose" => ctx.length <= max_chars
    /\ (op = "run" /\ agent.returned) => agent.context.length <= DefaultMaxChars

\* sum(scores) / max(1, len(scores)) >= t hundredths
MeanAtLeast(scores, t) ==
    IF Len(scores) = 0 THEN 0 >= t
    ELSE SumSeq(scores) >= t * Cent * Len(scores)

\* C3: the result is sufficient exactly when the retained chunks (the first
\* top_k of the re-ranked ones) number at least min_hits and their mean
\* boosted score, 0.0 for none, is at least the threshold.
C3_SufficiencyOnRetained ==
    Retrieved =>
        /\ Len(retr.scores) = Len(retr.docs)
        /\ Len(retr.docs) <= Len(retr.boosted)
        /\ \A i \in 1..Len(retr.docs) :
             retr.boosted[i] = [doc |-> retr.docs[i], score |-> retr.scores[i]]
        /\ (~retr.no_context) <=>
             (/\ Len(retr.docs) >= cfg.min_hits
              /\ MeanAtLeast(retr.scores, cfg.threshold))

\* a sufficient result whose retained set is shorter than the re-ranked one,
\* decided by the mean that only the retained chunks reach
C3_Witness ==
    /\ Retrieved
    /\ ~retr.no_context
    /\ Len(retr.docs) > 0
    /\ Len(retr.docs) < Len(retr.boosted)
    /\ ~MeanAtLeast([i \in 1..Len(retr.boosted) |-> retr.boosted[i].score],
                    cfg.threshold)

\* C4: zero candidates give an empty, insufficient result under every
\* configuration, and no error.
C4_EmptyIsInsufficient ==
    (op = "retrieve" /\ adapter.raised = "none" /\ adapter.candidates = <<>>) =>
        /\ retr.returned
        /\ retr.raised = "none"
        /\ retr.docs = <<>>
        /\ retr.no_context

\* the thresholds and min_hits the call is compared with
RaisedThresholds == {0, 50, 75, 100}
RaisedMinHits == {0, 1, 2, 3, 4}

\* C5: a call that is insufficient stays insufficient, for the same candidates
\* and top_k, under every threshold and min_hits at least as large.
C5_SufficiencyMonotone ==
    (op = "retrieve" /\ retr.returned /\ retr.no_context) =>
        \A t \in RaisedThresholds, m \in RaisedMinHits :
            (t >= cfg.threshold /\ m >= cfg.min_hits) =>
                Retrieve([cfg EXCEPT !.threshold = t, !.min_hits = m],
                         top_k_arg, adapter).no_context

\* an insufficient call with retained chunks, judged by the count alone
C5_Witness ==
    /\ op = "retrieve" /\ retr.returned /\ retr.no_context
    /\ Len(retr.docs) > 0
    /\ Len(retr.docs) < cfg.min_hits
    /\ MeanAtLeast(retr.scores, cfg.threshold)

\* the boosted score of a re-ranked chunk
BoostedOf(doc) ==
    LET j == CHOOSE j \in 1..Len(retr.boosted) : retr.boosted[j].doc = doc
    IN retr.boosted[j].score

\* C6: no boosted score is negative, and with both boosts at 0 a boosted
\* score is the raw score clamped to [0, 1], whatever the date and section.
C6_BoostedScoreClamped ==
    Retrieved =>
        /\ Len(retr.boosted) = Len(retr.fetched)
        /\ \A j \in 1..Len(retr.boosted) : retr.boosted[j].score >= 0
        /\ (cfg.freshness_boost = 0 /\ cfg.step_section_boost = 0) =>
             \A i \in 1..Len(retr.fetched) :
                LET raw == retr.fetched[i].score IN
                BoostedOf(retr.fetched[i].doc) =
                    (IF raw < 0 THEN 0 ELSE IF raw > 100 THEN Unit ELSE raw * Cent)

\* boosts off; a negative raw score beside a dated chunk and a procedural one
C6_Witness ==
    /\ Retrieved
    /\ cfg.freshness_boost = 0 /\ cfg.step_section_boost = 0
    /\ \E i \in 1..Len(retr.fetched) :
         retr.fetched[i].score < 0 /\ BoostedOf(retr.fetched[i].doc) = 0
    /\ \E i \in 1..Len(retr.fetched) : ParseDate(retr.fetched[i].doc.metadata) > 0
    /\ \E i \in 1..Len(retr.fetched) :
         Contains(Lower(Join(retr.fetched[i].doc.metadata.section_path, <<" ">>)),
                  TagStep)

\* the top_k of a call as the caller states it: the argument when given
StatedTopK == IF top_k_arg # <<>> THEN top_k_arg[1] ELSE cfg.top_k

\* C7: with a positive top_k, the returned chunks are the first top_k of the
\* re-ranked candidates: min(top_k, number of deduplicated candidates) many.
C7_TruncatedToTopK ==
    (Retrieved /\ StatedTopK > 0) =>
        /\ Len(retr.docs) = Min(StatedTopK, Len(retr.fetched))
        /\ Len(retr.docs) <= StatedTopK
        /\ \A i \in 1..Len(retr.docs) :
             /\ retr.docs[i] = retr.boosted[i].doc
             /\ retr.scores[i] = retr.boosted[i].score

\* a per-call top_k below the configured one cut the candidates
C7_Witness ==
    /\ op = "retrieve" /\ retr.returned
    /\ top_k_arg # <<>> /\ StatedTopK > 0 /\ StatedTopK < cfg.top_k
    /\ Len(retr.fetched) > StatedTopK
    /\ Len(retr.docs) = StatedTopK

\* the place of a chunk in the fetch output
FetchPos(doc) == CHOOSE k \in 1..Len(retr.fetched) : retr.fetched[k].doc = doc

\* C8: the returned chunks are in non-increasing order of boosted score, and
\* chunks of equal boosted score are in the order the fetch returned them.
C8_SortedStable ==
    Retrieved =>
        \A i, j \in 1..Len(retr.docs) :
            i < j =>
                /\ retr.scores[i] >= retr.scores[j]
                /\ retr.scores[i] = retr.scores[j] =>
                     FetchPos(retr.docs[i]) < FetchPos(retr.docs[j])

\* two returned chunks tie, and re-ranking moved a chunk ahead of the first
\* fetched one
C8_Witness ==
    /\ Retrieved
    /\ \E i, j \in 1..Len(retr.docs) : i < j /\ retr.scores[i] = retr.scores[j]
    /\ Len(retr.docs) > 0 /\ retr.docs[1] # retr.fetched[1].doc

\* C9: there is one source reference per retained chunk, in retrieve's
\* sources and in the sources of a sufficient run, whatever the context
\* block holds.
C9_SourcesPerRetainedChunk ==
    /\ Retrieved => Len(retr.sources) = Len(retr.docs)
    /\ (op = "run" /\ agent.returned /\ ~agent.no_context) =>
          Len(agent.sources) = Len(retr.docs)

\* a sufficient run whose context block leaves a retained chunk out
C9_Witness ==
    /\ op = "run" /\ agent.returned /\ ~agent.no_context
    /\ Len(agent.context.parts) < Len(retr.docs)
    /\ Len(agent.sources) = Len(retr.docs)

\* C10: a retrieve call queries the adapter once; a failure of that query is
\* the failure of the call, which returns nothing.
C10_AdapterFailurePropagates ==
    op = "retrieve" =>
        /\ retr.adapter_calls = 1
        /\ adapter.raised # "none" =>
             /\ ~retr.returned
             /\ retr.raised = adapter.raised
             /\ retr.docs = <<>> /\ retr.sources = <<>>
        /\ adapter.raised = "none" => retr.returned /\ retr.raised = "none"

\* the adapter failed and retrieve raised the same error
C10_Witness ==
    /\ op = "retrieve"
    /\ adapter.raised = "IndexUnavailableError"
    /\ retr.raised = "IndexUnavailableError"
    /\ ~retr.returned

(***************************************************************************)
(* One engine, two callers whose retrieve calls may overlap: a call reads  *)
(* the configuration and queries the adapter, and later computes its       *)
(* result.                                                                 *)
(***************************************************************************)
Callers == {1, 2}

SeqResponses ==
    { [raised |-> "none", candidates |-> <<>>],
      [raised |-> "none", candidates |-> << [doc |-> DocA2, score |-> 95] >>],
      [raised |-> "none",
       candidates |-> << [doc |-> DocA1, score |-> 90], [doc |-> DocB, score |-> 90],
                         [doc |-> DocC, score |-> 150] >>],
      [raised |-> "IndexUnavailableError", candidates |-> <<>>] }

IdleCaller ==
    [pc |-> "idle", top_k_arg |-> <<>>, top_k |-> 0, adapter |-> NoAdapter,
     result |-> NoRetrieval]

InitSeq ==
    /\ cfg \in RetrieverConfig
    /\ EngineIdle
    /\ threads = [cfg0 |-> cfg, callers |-> [p \in Callers |-> IdleCaller]]
    /\ router = IdleRouter
    /\ graph = IdleGraph
    /\ billing = IdleBilling
    /\ refunds = IdleRefunds

\* retrieve, lines 150 and 114: the local top_k and the adapter query
BeginRetrieve(p) ==
    /\ threads.callers[p].pc = "idle"
    /\ \E k \in TopKArgs, a \in SeqResponses :
         /\ threads' = [threads EXCEPT !.callers[p] =
                           [pc |-> "fetching", top_k_arg |-> k,
                            top_k |-> EffectiveTopK(cfg, k), adapter |-> a,
                            result |-> NoRetrieval]]
         /\ cfg' = CfgAfterRetrieve(cfg, k)
    /\ UNCHANGED <<engine, router, graph, billing, refunds>>

\* retrieve, lines 115-168: dedup, boosts, truncation, decision, return
FinishRetrieve(p) ==
    /\ threads.callers[p].pc = "fetching"
    /\ threads' = [threads EXCEPT
                     !.callers[p].pc = "done",
                     !.callers[p].result =
                        RetrieveWithTopK(cfg, threads.callers[p].top_k,
                                         threads.callers[p].adapter)]
    /\ UNCHANGED <<cfg, engine, router, graph, billing, refunds>>

\* the caller takes the outcome and may call again
TakeResult(p) ==
    /\ threads.callers[p].pc = "done"
    /\ threads' = [threads EXCEPT !.callers[p] = IdleCaller]
    /\ UNCHANGED <<cfg, engine, router, graph, billing, refunds>>

NextSeq == \E p \in Callers : BeginRetrieve(p) \/ FinishRetrieve(p) \/ TakeResult(p)

SpecSeq == InitSeq /\ [][NextSeq]_vars

\* C14: retrieve changes no state of the engine: the configuration stays
\* the one the engine was built with, and the outcome of every call, made
\* after or during other calls with other top_k arguments, is the outcome
\* of the same call made alone on a fresh engine.
C14_RetrieveStateless ==
    /\ cfg = threads.cfg0
    /\ \A p \in Callers :
          threads.callers[p].pc = "done" =>
              threads.callers[p].result =
                  Retrieve(threads.cfg0, threads.callers[p].top_k_arg,
                           threads.callers[p].adapter)

\* a call with top_k = 1 returned one chunk while a call without top_k, on
\* the same candidates, is in flight with the configured top_k
C14_Witness ==
    /\ threads.callers[1].pc = "done"
    /\ threads.callers[1].top_k_arg = <<1>>
    /\ Len(threads.callers[1].adapter.candidates) = 3
    /\ Len(threads.callers[1].result.docs) = 1
    /\ threads.callers[2].pc = "fetching"
    /\ threads.callers[2].top_k_arg = <<>>
    /\ threads.callers[2].adapter = threads.callers[1].adapter
    /\ threads.callers[2].top_k = cfg.top_k
    /\ cfg.top_k > 1

(***************************************************************************)
(* agents/router_agent.py: RouterAgent.route.  Confidences are in          *)
(* hundredths.  A response of the language model is text that is not JSON, *)
(* JSON that is not an object, or a JSON object; a member of the object is *)
(* absent, null, a string or a number.                                     *)
(***************************************************************************)
\* The longest conversation history of a routed state.
MaxHistory == 5

Roles == {"user", "assistant"}
Histories == SeqsUpTo(Roles, MaxHistory)
\* ConversationState.last_agent; "None" is None
LastAgents == {"None", "technical", "billing", "fallback"}
Specialists == {"technical", "billing"}

Absent == [t |-> "absent", v |-> 0]
Null   == [t |-> "null", v |-> 0]
JStr(x) == [t |-> "str", v |-> x]
JNum(x) == [t |-> "num", v |-> x]

JsonCategories ==
    {Absent, Null, JStr("technical"), JStr("billing"), JStr("unknown"),
     JStr("Billing"), JStr("other")}
JsonConfidences ==
    {Absent, Null, JStr("high"), JNum(0), JNum(30), JNum(50), JNum(69),
     JNum(70), JNum(100)}

LLMResponses ==
    {[kind |-> "text"], [kind |-> "array"]}
        \cup [kind : {"object"}, category : JsonCategories,
                confidence : JsonConfidences]

\* str(x).lower() of the category member; x is classification.get("category", "unknown")
CategoryOf(member) ==
    CASE member.t = "absent" -> "unknown"
      [] member.t = "null" -> "none"
      [] member.v = "Billing" -> "billing"
      [] OTHER -> member.v

ClassificationError == [raised |-> "none", category |-> "unknown", confidence |-> 0]

\* RouterAgent._classify_intent: json.loads and .get raise what the except
\* clause names; float(None) raises TypeError, which it does not name
ClassifyIntent(response) ==
    IF response.kind # "object" THEN ClassificationError
    ELSE IF response.confidence.t = "null"
         THEN [raised |-> "TypeError", category |-> "", confidence |-> 0]
    ELSE IF response.confidence.t = "str" THEN ClassificationError
    ELSE [raised |-> "none", category |-> CategoryOf(response.category),
          confidence |-> response.confidence.v]

\* history[-4:]
LastFour(history) == SubSeq(history, Max(1, Len(history) - 3), Len(history))

\* RouterAgent._has_recent_agent_context
HasRecentAgentContext(history, agent_name) ==
    IF agent_name = "None" \/ history = <<>> THEN FALSE
    ELSE LET recent == IF Len(history) >= 2 THEN LastFour(history) ELSE history
         IN (\E i \in 1..Len(recent) : recent[i] = "assistant") /\ Len(history) >= 2

\* a routing whose low-confidence branch returns last_agent whatever it is
RouteDecisionStickyUnchecked(history, last_agent, category, confidence) ==
    IF confidence >= 70 /\ category \in Specialists THEN category
    ELSE IF confidence < 70 THEN last_agent
    ELSE "fallback"

\* a routing that tries the medium-confidence branch before the sticky one
RouteDecisionMediumFirst(history, last_agent, category, confidence) ==
    IF confidence >= 70 /\ category \in Specialists
    THEN IF last_agent \in Specialists /\ HasRecentAgentContext(history, last_agent)
         THEN IF category = last_agent \/ category = "unknown"
              THEN last_agent ELSE category
         ELSE category
    ELSE IF confidence >= 50 /\ category \in Specialists THEN category
    ELSE IF last_agent \in Specialists /\ confidence < 70 THEN last_agent
    ELSE "fallback"

\* a routing that stays with the agent of an active conversation
RouteDecisionStayInContext(history, last_agent, category, confidence) ==
    IF confidence >= 70 /\ category \in Specialists
    THEN IF last_agent \in Specialists /\ HasRecentAgentContext(history, last_agent)
         THEN last_agent
         ELSE category
    ELSE IF last_agent \in Specialists /\ confidence < 70 THEN last_agent
    ELSE IF confidence >= 50 /\ category \in Specialists THEN category
    ELSE "fallback"

\* the if/elif chain of RouterAgent.route (lines 111-132)
RouteDecision(history, last_agent, category, confidence) ==
    IF confidence >= 70 /\ category \in Specialists
    THEN IF last_agent \in Specialists /\ HasRecentAgentContext(history, last_agent)
         THEN IF category = last_agent \/ category = "unknown"
              THEN last_agent ELSE category
         ELSE category
    ELSE IF last_agent \in Specialists /\ confidence < 70 THEN last_agent
    ELSE IF confidence >= 50 /\ category \in Specialists THEN category
    ELSE "fallback"

\* RouterAgent.route(state, user_message), the model answering response
Route(history, last_agent, response) ==
    LET classification == ClassifyIntent(response)
    IN IF classification.raised # "none"
       THEN [IdleRouter EXCEPT !.pc = "returned", !.history = history,
                               !.last_agent = last_agent, !.response = response,
                               !.raised = classification.raised]
       ELSE [pc |-> "returned", history |-> history, last_agent |-> last_agent,
             response |-> response, raised |-> "none",
             classification |-> [category |-> classification.category,
                                 confidence |-> classification.confidence],
             route |-> RouteDecision(history, last_agent, classification.category,
                                     classification.confidence),
             confidence |-> classification.confidence]

\* Default configuration of the engine the agents share.
DefaultConfig ==
    [top_k |-> 8, fetch_k |-> 24, threshold |-> 50, min_hits |-> 3,
     freshness_boost |-> 0, step_section_boost |-> 0]

InitRouter ==
    /\ cfg = DefaultConfig
    /\ EngineIdle
    /\ threads = IdleThreads
    /\ router = IdleRouter
    /\ graph = IdleGraph
    /\ billing = IdleBilling
    /\ refunds = IdleRefunds

RouteCall ==
    /\ router.pc = "idle"
    /\ \E h \in Histories, la \in LastAgents, r \in LLMResponses :
         router' = Route(h, la, r)
    /\ UNCHANGED <<cfg, engine, threads, graph, billing, refunds>>

RouteReturn ==
    /\ router.pc = "returned"
    /\ router' = IdleRouter
    /\ UNCHANGED <<cfg, engine, threads, graph, billing, refunds>>

NextRouter == RouteCall \/ RouteReturn

SpecRouter == InitRouter /\ [][NextRouter]_vars

Routes == {"technical", "billing", "fallback"}

\* C18: for every classification (any category, any numeric or absent
\* confidence) and every state whose last_agent is None, technical, billing
\* or fallback, route returns, and its route is technical, billing or
\* fallback.
C18_RouteInRange ==
    router.pc = "returned" =>
        /\ router.raised = "none" => router.route \in Routes
        /\ (router.response.kind = "object"
              /\ router.response.confidence.t \in {"absent", "num"}) =>
                router.raised = "none"

\* a confident classification outside the two specialist categories, with
\* last_agent fallback, was routed to fallback; a classification below 0.7
\* with no last_agent too
C18_Witness ==
    /\ router.pc = "returned" /\ router.raised = "none"
    /\ router.response.kind = "object"
    /\ \/ /\ router.classification.category = "other"
          /\ router.classification.confidence = 100
          /\ router.last_agent = "fallback"
       \/ /\ router.classification.confidence = 30
          /\ router.last_agent = "None"
    /\ router.route = "fallback"

(***************************************************************************)
(* graph.py: the support graph.  graph.node is the node about to run;      *)
(* graph.visited lists the nodes the current turn has run.  The state of   *)
(* the conversation is kept between turns (MemorySaver).                   *)
(***************************************************************************)
\* The number of turns of one conversation.
MaxTurns == 3

AgentNodes == {"technical", "billing", "fallback"}

\* what the router's language model does: it fails, or answers text that is
\* not JSON, a JSON array, or a JSON object with or without a category
RouterResponses ==
    {[kind |-> "raise", category |-> Absent], [kind |-> "text", category |-> Absent],
     [kind |-> "array", category |-> Absent]}
        \cup [kind : {"object"},
                category : {Absent, Null, JNum(1), JStr("technical"), JStr("billing"),
                            JStr("other"), JStr("Technical"), JStr("refund")}]

\* router/router_agent.py RouterAgent.classify: parsed["category"] as it is,
\* "other" on any exception
Classify(response) ==
    IF response.kind # "object" \/ response.category = Absent
    THEN JStr("other")
    ELSE response.category

\* a conditional edge that compares the category in lower case
RouteToAgentAnyCase(state) ==
    IF state.current_category \in {JStr("technical"), JStr("Technical")} THEN "technical"
    ELSE IF state.current_category = JStr("billing") THEN "billing"
    ELSE "fallback"

\* graph.py route_to_agent
RouteToAgent(state) ==
    IF state.current_category = JStr("technical") THEN "technical"
    ELSE IF state.current_category = JStr("billing") THEN "billing"
    ELSE "fallback"

InitGraph ==
    /\ cfg = DefaultConfig
    /\ EngineIdle
    /\ threads = IdleThreads
    /\ router = IdleRouter
    /\ graph = IdleGraph
    /\ billing = IdleBilling
    /\ refunds = IdleRefunds

\* a turn starts at the entry point, from the state the last turn left
GraphInvoke ==
    /\ graph.node \in {"START", "END", "failed"}
    /\ graph.turn_count < MaxTurns
    /\ graph' = [graph EXCEPT !.node = "router", !.visited = <<>>,
                              !.response = [kind |-> "none"], !.raised = "none"]
    /\ UNCHANGED <<cfg, engine, threads, router, billing, refunds>>

\* the router node (RouterAgent.__call__) and the conditional edge after it
RouterNode ==
    /\ graph.node = "router"
    /\ \E r \in RouterResponses :
         LET state == [graph EXCEPT !.current_category = Classify(r),
                                    !.last_agent = "router",
                                    !.turn_count = @ + 1,
                                    !.response = r,
                                    !.visited = Append(@, "router")]
         IN graph' = [state EXCEPT !.node = RouteToAgent(state)]
    /\ UNCHANGED <<cfg, engine, threads, router, billing, refunds>>

\* the state after an agent node returned it, and after the node raised
NodeReturned(state, name, last_agent) ==
    [state EXCEPT !.visited = Append(@, name), !.last_agent = last_agent,
                  !.node = "END"]
NodeRaised(state, name) ==
    [state EXCEPT !.visited = Append(@, name), !.node = "failed",
                  !.raised = "Exception"]

\* the technical node and its edge to END; the node is any callable on the
\* state, which may or may not record itself as last_agent
TechnicalNode ==
    /\ graph.node = "technical"
    /\ graph' \in {NodeReturned(graph, "technical", "technical"),
                   NodeReturned(graph, "technical", graph.last_agent),
                   NodeRaised(graph, "technical")}
    /\ UNCHANGED <<cfg, engine, threads, router, billing, refunds>>

\* the billing node (BillingAgent.__call__) and its edge to END
BillingNode ==
    /\ graph.node = "billing"
    /\ graph' \in {NodeReturned(graph, "billing", "billing"),
                   NodeRaised(graph, "billing")}
    /\ UNCHANGED <<cfg, engine, threads, router, billing, refunds>>

\* the fallback node and its edge to END; any callable, as the technical one
FallbackNode ==
    /\ graph.node = "fallback"
    /\ graph' \in {NodeReturned(graph, "fallback", "fallback"),
                   NodeReturned(graph, "fallback", graph.last_agent),
                   NodeRaised(graph, "fallback")}
    /\ UNCHANGED <<cfg, engine, threads, router, billing, refunds>>

NextGraph == GraphInvoke \/ RouterNode \/ TechnicalNode \/ BillingNode \/ FallbackNode

SpecGraph == InitGraph /\ [][NextGraph]_vars

\* the agent node the category of the turn is to reach
AgentFor(category) ==
    IF category = JStr("technical") THEN "technical"
    ELSE IF category = JStr("billing") THEN "billing"
    ELSE "fallback"

\* C19: a turn of the support graph runs the router, then exactly one agent
\* node, then ends: technical for category 'technical', billing for
\* 'billing', fallback for every other category, a missing category and a
\* failed classification; it runs no second agent node and never returns to
\* the router.
C19_RouterThenOneAgent ==
    /\ Len(graph.visited) <= 2
    /\ graph.node \in {"START", "router"} <=> graph.visited = <<>>
    /\ graph.node \in AgentNodes =>
          /\ graph.visited = <<"router">>
          /\ graph.node = AgentFor(graph.current_category)
    /\ graph.node \in {"END", "failed"} =>
          graph.visited = <<"router", AgentFor(graph.current_category)>>
    /\ (graph.visited # <<>>
          /\ (graph.response.kind # "object"
                 \/ graph.response.category \notin {JStr("technical"), JStr("billing")})) =>
          AgentFor(graph.current_category) = "fallback"
    /\ (graph.visited # <<>> /\ graph.response.kind = "object"
          /\ graph.response.category \in {JStr("technical"), JStr("billing")}) =>
          AgentFor(graph.current_category) = graph.response.category.v

\* a second turn ended after the router and the fallback node, the model
\* having answered a category in another case; one whose classification
\* failed did too
C19_Witness ==
    /\ graph.node = "END"
    /\ graph.turn_count = 2
    /\ graph.visited = <<"router", "fallback">>
    /\ \/ graph.response = [kind |-> "object", category |-> JStr("Technical")]
       \/ graph.response.kind = "raise"

(***************************************************************************)
(* agents/billing_agent.py and tools/billing_tools.py.  A tool call of the *)
(* language model names a tool and carries arguments: user_id is the id    *)
(* the model put there ("absent" when none), reason tells whether a reason *)
(* is given.                                                               *)
(***************************************************************************)
\* max_iterations of handle_request
MaxIterations == 5
\* The most tool calls in one response of the language model.
MaxToolCalls == 2

StateUserIds == {"u123", "u456", "u999"}
LLMUserIds   == {"absent", "u123", "u456"}
ToolNames ==
    {"get_subscription_tool", "open_refund_case_tool", "get_refund_policy_tool",
     "delete_account_tool"}

\* the tools without a user_id parameter are called without one
ToolCalls ==
    [name : {"get_subscription_tool"}, user_id : LLMUserIds, reason : {FALSE}]
        \cup [name : {"open_refund_case_tool"}, user_id : LLMUserIds, reason : {TRUE}]
        \cup [name : ToolNames \ {"get_subscription_tool"}, user_id : {"absent"},
                reason : {FALSE}]

\* response.tool_calls of the responses that ask for tools
ToolCallLists == SeqsUpTo(ToolCalls, MaxToolCalls) \ {<<>>}

\* tools/billing_tools.py get_subscription: plan and status of a user
GetSubscription(user_id) ==
    CASE user_id = "u123" -> [user_id |-> user_id, plan_code |-> "M", status |-> "active"]
      [] user_id = "u456" -> [user_id |-> user_id, plan_code |-> "L", status |-> "active"]
      [] OTHER -> [user_id |-> user_id, plan_code |-> "N/A", status |-> "not_found"]

\* the outcome of a tool: the user id it was invoked with ("" for a tool
\* without one), what it raised and what it returned
Executed(tool_call, invoked_with, raised, result) ==
    [call |-> tool_call, invoked_with |-> invoked_with, raised |-> raised,
     result |-> result]

NoResult == [user_id |-> "", plan_code |-> "", status |-> ""]

\* a tool execution that prefers the user id of the tool-call arguments
ExecuteToolCallTrustingArgs(tool_call, user_id) ==
    LET uid == IF tool_call.user_id = "absent" THEN user_id ELSE tool_call.user_id
    IN IF tool_call.name = "get_subscription_tool"
       THEN Executed(tool_call, uid, "none", GetSubscription(uid))
       ELSE IF tool_call.name = "open_refund_case_tool"
       THEN Executed(tool_call, uid,
                     IF tool_call.reason THEN "TypeError" ELSE "ValidationError",
                     NoResult)
       ELSE IF tool_call.name = "get_refund_policy_tool"
       THEN Executed(tool_call, "", "none",
                     [NoResult EXCEPT !.status = "policy"])
       ELSE Executed(tool_call, "", "none", [NoResult EXCEPT !.status = "error"])

\* BillingAgent._execute_tool_call.  open_refund_case_tool is invoked with
\* the given user_id and raises: without a reason its arguments fail
\* validation, with one it calls open_refund_case without invoice_id
ExecuteToolCall(tool_call, user_id) ==
    IF tool_call.name = "get_subscription_tool"
    THEN Executed(tool_call, user_id, "none", GetSubscription(user_id))
    ELSE IF tool_call.name = "open_refund_case_tool"
    THEN Executed(tool_call, user_id,
                  IF tool_call.reason THEN "TypeError" ELSE "ValidationError",
                  NoResult)
    ELSE IF tool_call.name = "get_refund_policy_tool"
    THEN Executed(tool_call, "", "none", [NoResult EXCEPT !.status = "policy"])
    ELSE Executed(tool_call, "", "none", [NoResult EXCEPT !.status = "error"])

RECURSIVE ExecuteFrom(_, _, _, _)
\* the inner loop of handle_request: the calls of one response in order,
\* up to the first one that raises
ExecuteFrom(tool_calls, i, user_id, done) ==
    IF i > Len(tool_calls) THEN done
    ELSE LET e == ExecuteToolCall(tool_calls[i], user_id)
         IN IF e.raised # "none" THEN Append(done, e)
            ELSE ExecuteFrom(tool_calls, i + 1, user_id, Append(done, e))

RaisedIn(done) ==
    IF done # <<>> /\ done[Len(done)].raised # "none"
    THEN done[Len(done)].raised ELSE "none"

InitBilling ==
    /\ cfg = DefaultConfig
    /\ EngineIdle
    /\ threads = IdleThreads
    /\ router = IdleRouter
    /\ graph = IdleGraph
    /\ billing = IdleBilling
    /\ refunds = IdleRefunds

\* BillingAgent.__call__ up to the loop of handle_request
BillingCall ==
    /\ billing.pc = "idle"
    /\ \E u \in StateUserIds :
         billing' = [IdleBilling EXCEPT !.pc = "running", !.user_id = u]
    /\ UNCHANGED <<cfg, engine, threads, router, graph, refunds>>

\* one iteration whose response asks for tools
BillingIterate ==
    /\ billing.pc = "running"
    /\ billing.llm_calls < MaxIterations
    /\ \E tool_calls \in ToolCallLists :
         LET done == ExecuteFrom(tool_calls, 1, billing.user_id, <<>>)
         IN billing' = [billing EXCEPT
                          !.llm_calls = @ + 1,
                          !.requested = tool_calls,
                          !.executed = done,
                          !.raised = RaisedIn(done),
                          !.pc = IF RaisedIn(done) # "none" THEN "failed" ELSE "running"]
    /\ UNCHANGED <<cfg, engine, threads, router, graph, refunds>>

\* one iteration whose response has no tool calls: its content is the answer
BillingAnswer ==
    /\ billing.pc = "running"
    /\ billing.llm_calls < MaxIterations
    /\ billing' = [billing EXCEPT !.llm_calls = @ + 1, !.pc = "returned",
                                  !.requested = <<>>, !.executed = <<>>,
                                  !.answer = "content"]
    /\ UNCHANGED <<cfg, engine, threads, router, graph, refunds>>

\* the loop ran out: the fixed request for clarification
BillingGiveUp ==
    /\ billing.pc = "running"
    /\ billing.llm_calls = MaxIterations
    /\ billing' = [billing EXCEPT !.pc = "returned", !.answer = "clarify"]
    /\ UNCHANGED <<cfg, engine, threads, router, graph, refunds>>

\* the node returns the state, or its exception leaves the node
BillingReturn ==
    /\ billing.pc \in {"returned", "failed"}
    /\ billing' = IdleBilling
    /\ UNCHANGED <<cfg, engine, threads, router, graph, refunds>>

NextBilling ==
    BillingCall \/ BillingIterate \/ BillingAnswer \/ BillingGiveUp \/ BillingReturn

SpecBilling == InitBilling /\ [][NextBilling]_vars

UserIdTools == {"get_subscription_tool", "open_refund_case_tool"}

\* C20: a tool that takes a user id is executed with the user_id of the
\* conversation state, and its outcome is the one the same call has with
\* any other user_id in its arguments.
C20_ToolsUseStateUserId ==
    \A i \in 1..Len(billing.executed) :
        LET e == billing.executed[i] IN
        /\ e.call.name \in UserIdTools => e.invoked_with = billing.user_id
        /\ \A u \in LLMUserIds :
              LET other == ExecuteToolCall([e.call EXCEPT !.user_id = u], billing.user_id)
              IN /\ other.invoked_with = e.invoked_with
                 /\ other.raised = e.raised
                 /\ other.result = e.result
        /\ (e.call.name = "get_subscription_tool") =>
              e.result = GetSubscription(billing.user_id)

\* the model asked for the subscription of u456 in the conversation of u123
\* and got the plan of u123
C20_Witness ==
    /\ billing.pc = "running"
    /\ billing.user_id = "u123"
    /\ \E i \in 1..Len(billing.executed) :
         /\ billing.executed[i].call.name = "get_subscription_tool"
         /\ billing.executed[i].call.user_id = "u456"
         /\ billing.executed[i].invoked_with = "u123"
         /\ billing.executed[i].result.plan_code = "M"

(***************************************************************************)
(* tools/billing_tools.py: open_refund_case and the process-wide counter   *)
(* of case ids.  refunds.calls lists the calls in the order they are made. *)
(***************************************************************************)
\* The number of calls of open_refund_case in one process.
MaxRefundCalls == 3

\* reason arguments: members of RefundReason, and a plain str
RefundReasons ==
    {[enum |-> TRUE, value |-> "overcharge"],
     [enum |-> TRUE, value |-> "within_cooling_off"],
     [enum |-> FALSE, value |-> "overcharge"]}

\* f"R{n}"
CaseId(n) == [prefix |-> "R", number |-> n]
NoCaseId == [prefix |-> "", number |-> 0]

\* an open_refund_case that takes the id of an unknown user's case without
\* advancing the counter
OpenRefundCasePeeking(counter, user_id, reason) ==
    IF user_id \notin {"u123", "u456"}
    THEN [counter |-> counter, bound |-> TRUE, raised |-> "none",
          case_id |-> CaseId(counter), status |-> "pending_review"]
    ELSE IF ~reason.enum
    THEN [counter |-> counter + 1, bound |-> TRUE, raised |-> "AttributeError",
          case_id |-> NoCaseId, status |-> ""]
    ELSE [counter |-> counter + 1, bound |-> TRUE, raised |-> "none",
          case_id |-> CaseId(counter),
          status |-> IF reason.value = "within_cooling_off"
                     THEN "pending_review" ELSE "opened"]

\* open_refund_case(user_id, reason, amount_pln, invoice_id): next() is the
\* first statement; reason.value of a plain str raises AttributeError
OpenRefundCase(counter, user_id, reason) ==
    IF user_id \notin {"u123", "u456"}
    THEN [counter |-> counter + 1, bound |-> TRUE, raised |-> "none",
          case_id |-> CaseId(counter), status |-> "pending_review"]
    ELSE IF ~reason.enum
    THEN [counter |-> counter + 1, bound |-> TRUE, raised |-> "AttributeError",
          case_id |-> NoCaseId, status |-> ""]
    ELSE [counter |-> counter + 1, bound |-> TRUE, raised |-> "none",
          case_id |-> CaseId(counter),
          status |-> IF reason.value = "within_cooling_off"
                     THEN "pending_review" ELSE "opened"]

\* open_refund_case(user_id, reason, amount), the call of billing_agent.py:
\* TypeError for the missing invoice_id, before the body runs
OpenRefundCaseShort(counter) ==
    [counter |-> counter, bound |-> FALSE, raised |-> "TypeError",
     case_id |-> NoCaseId, status |-> ""]

InitRefund ==
    /\ cfg = DefaultConfig
    /\ EngineIdle
    /\ threads = IdleThreads
    /\ router = IdleRouter
    /\ graph = IdleGraph
    /\ billing = IdleBilling
    /\ refunds = IdleRefunds

\* a call with all its arguments
RefundCall ==
    /\ Len(refunds.calls) < MaxRefundCalls
    /\ \E u \in StateUserIds, r \in RefundReasons :
         LET out == OpenRefundCase(refunds.counter, u, r)
         IN refunds' = [counter |-> out.counter,
                        calls |-> Append(refunds.calls,
                                         [user_id |-> u, reason |-> r, out |-> out])]
    /\ UNCHANGED <<cfg, engine, threads, router, graph, billing>>

\* a call without invoice_id
RefundCallShort ==
    /\ Len(refunds.calls) < MaxRefundCalls
    /\ \E u \in StateUserIds :
         LET out == OpenRefundCaseShort(refunds.counter)
         IN refunds' = [counter |-> out.counter,
                        calls |-> Append(refunds.calls,
                                         [user_id |-> u,
                                          reason |-> [enum |-> FALSE, value |-> "overcharge"],
                                          out |-> out])]
    /\ UNCHANGED <<cfg, engine, threads, router, graph, billing>>

NextRefund == RefundCall \/ RefundCallShort

SpecRefund == InitRefund /\ [][NextRefund]_vars

\* the calls before the i-th that entered the body of open_refund_case
EnteredBefore(i) == Cardinality({j \in 1..(i - 1) : refunds.calls[j].out.bound})

\* C28: every call of open_refund_case that returns gives a case id no
\* earlier call gave: every call made with all its arguments takes the next
\* of R10001, R10002, ... in call order, also a call for an unknown user,
\* which returns status pending_review.
C28_CaseIdsUnique ==
    /\ \A i \in 1..Len(refunds.calls) :
          LET c == refunds.calls[i] IN
          /\ (c.out.bound /\ c.reason.enum) => c.out.raised = "none"
          /\ c.out.raised = "none" =>
                /\ c.out.case_id = CaseId(FirstCaseId + EnteredBefore(i))
                /\ c.out.case_id.prefix = "R"
          /\ (c.out.raised = "none" /\ c.user_id = "u999") =>
                c.out.status = "pending_review"
    /\ \A i, j \in 1..Len(refunds.calls) :
          (i < j /\ refunds.calls[i].out.raised = "none"
                 /\ refunds.calls[j].out.raised = "none") =>
              refunds.calls[i].out.case_id.number < refunds.calls[j].out.case_id.number
    /\ refunds.counter = FirstCaseId + EnteredBefore(Len(refunds.calls) + 1)

\* R10001 went to an unknown user with pending_review, R10002 to the next
\* call
C28_Witness ==
    /\ Len(refunds.calls) >= 2
    /\ refunds.calls[1].user_id = "u999"
    /\ refunds.calls[1].out.case_id = CaseId(10001)
    /\ refunds.calls[1].out.status = "pending_review"
    /\ refunds.calls[2].out.case_id = CaseId(10002)
    /\ refunds.calls[2].out.status = "opened"

\* the chunk has a last_updated that datetime.fromisoformat accepts
Parseable(meta) == "last_updated" \in DOMAIN meta /\ meta.last_updated.iso

\* some entry of the section path contains, in any case, a procedural token
HasProceduralEntry(meta) ==
    LET path == Get(meta, "section_path", <<>>) IN
    \E i \in 1..Len(path) :
        \/ Contains(Lower(path[i]), TagStep)
        \/ Contains(Lower(path[i]), TagVerification)

\* x multiplied by (1 + boost), boost in hundredths
Times(x, boost) == (x * (100 + boost)) \div 100

\* C11: the freshness multiplier is applied to the clamped score of a chunk
\* exactly when its last_updated is a parseable ISO date, whatever the date;
\* an absent or unparseable date gives no boost and no error.
C11_FreshnessOnEveryParseableDate ==
    Retrieved =>
        \A i \in 1..Len(retr.fetched) :
            LET doc  == retr.fetched[i].doc
                base == Clamp01(retr.fetched[i].score) * Cent
                fresh == IF Parseable(doc.metadata)
                         THEN Times(base, cfg.freshness_boost) ELSE base
            IN BoostedOf(doc) = IF HasProceduralEntry(doc.metadata)
                                THEN Times(fresh, cfg.step_section_boost)
                                ELSE fresh

C13_MalformedMetadataTolerated ==
    (op = "retrieve" /\ adapter.raised = "none") =>
        /\ retr.returned
        /\ retr.raised = "none"
        /\ Len(retr.boosted) = Len(retr.fetched)

\* C15: every retrieval runs with an effective configuration in which
\* fetch_k >= top_k > 0, min_hits >= 1 and the threshold is within [0, 1].
C15_EffectiveConfigValid ==
    op = "retrieve" =>
        /\ cfg.fetch_k >= retr.top_k
        /\ retr.top_k > 0
        /\ cfg.min_hits >= 1
        /\ cfg.threshold >= 0 /\ cfg.threshold <= 100

\* the section label and the file name a source reference is to carry
ExpectedSection(doc) ==
    LET path == Get(doc.metadata, "section_path", <<>>)
    IN IF path = <<>> THEN <<"-">> ELSE Join(path, <<" ", "/", " ">>)
ExpectedFile(doc) ==
    LET segs == Split(Get(doc.metadata, "path", <<>>), "/") IN segs[Len(segs)]

\* C16: every source reference carries the section path joined with " / ",
\* or "-" when the path is empty, and the last segment of the source path.
C16_SourceLabels ==
    /\ Retrieved =>
          \A i \in 1..Len(retr.sources) :
              /\ retr.sources[i].section = ExpectedSection(retr.docs[i])
              /\ retr.sources[i].file = ExpectedFile(retr.docs[i])
    /\ (op = "run" /\ agent.returned /\ ~agent.no_context) =>
          \A i \in 1..Len(agent.sources) :
              /\ agent.sources[i].section = ExpectedSection(retr.docs[i])
              /\ agent.sources[i].file = ExpectedFile(retr.docs[i])

\* C17: a run whose retrieval reports no_context or returns no documents
\* answers with the fixed clarification reply, no sources and no_context
\* true, without invoking the language model; any other run invokes the
\* language model exactly once and answers with no_context false.
C17_ClarificationWithoutModel ==
    (op = "run" /\ agent.returned) =>
        IF retr.no_context \/ Len(retr.docs) = 0
        THEN /\ agent.reply = ClarificationReply
             /\ agent.sources = <<>>
             /\ agent.no_context
             /\ agent.llm_calls = 0
        ELSE /\ agent.llm_calls = 1
             /\ ~agent.no_context
             /\ agent.reply # ClarificationReply

\* the retrieval called an empty result sufficient, and the run still asked
\* for clarification without the language model
C17_Witness ==
    /\ op = "run" /\ agent.returned
    /\ ~retr.no_context /\ Len(retr.docs) = 0
    /\ agent.no_context /\ agent.llm_calls = 0
    /\ agent.reply = ClarificationReply

RECURSIVE FirstOfPairFrom(_, _, _)
\* the candidates that no earlier candidate equals in (doc_id, section_path)
FirstOfPairFrom(candidates, i, kept) ==
    IF i > Len(candidates) THEN kept
    ELSE IF \E j \in 1..(i - 1) : Pair(candidates[j].doc) = Pair(candidates[i].doc)
         THEN FirstOfPairFrom(candidates, i + 1, kept)
         ELSE FirstOfPairFrom(candidates, i + 1, Append(kept, candidates[i]))

ChunksLen(docs, n) == SumSeq([i \in 1..n |-> ChunkLen(docs[i])])

\* parts is the longest prefix of docs whose chunks fit in max_chars
PrefixWithinBudget(parts, docs, budget) ==
    /\ Len(parts) <= Len(docs)
    /\ \A i \in 1..Len(parts) : parts[i] = docs[i]
    /\ ChunksLen(docs, Len(parts)) <= budget
    /\ Len(parts) < Len(docs) => ChunksLen(docs, Len(parts) + 1) > budget

\* C22: the context block holds a prefix of the chunks in their order: the
\* first chunk that does not fit in the remaining budget ends the block,
\* and no later chunk is added, whatever its size.
C22_ContextIsPrefix ==
    /\ op = "compose" =>
          PrefixWithinBudget(ctx.parts, [i \in 1..Len(ctx_in) |-> ctx_in[i].doc],
                             max_chars)
    /\ (op = "run" /\ agent.returned /\ ~agent.no_context) =>
          PrefixWithinBudget(agent.context.parts, retr.docs, DefaultMaxChars)

\* the second chunk did not fit and the third, which would still fit, was
\* left out with it
C22_Witness ==
    /\ op = "compose"
    /\ Len(ctx_in) = 3
    /\ Len(ctx.parts) = 1
    /\ ChunkLen(ctx_in[1].doc) + ChunkLen(ctx_in[2].doc) > max_chars
    /\ ChunkLen(ctx_in[1].doc) + ChunkLen(ctx_in[3].doc) <= max_chars

\* the text holds "Sources:"
HasSources(text) == \E i \in 1..Len(text) : text[i].kind = "Sources:"

\* C23: a reply returned with no_context false holds a 'Sources:' section
\* whatever the language model wrote; when its text lacks 'Sources:', the
\* reply is that text, stripped at the end, followed by 'Sources:' and one
\* line per retained chunk.
C23_ReplyHasSources ==
    (op = "run" /\ agent.returned /\ ~agent.no_context) =>
        /\ HasSources(agent.reply)
        /\ ~HasSources(agent.llm_text) =>
              LET n == Len(agent.reply) IN
              /\ n >= 4
              /\ SubSeq(agent.reply, 1, n - 4) = RStrip(agent.llm_text)
              /\ agent.reply[n - 2].kind = "Sources:"
              /\ agent.reply[n].kind = "block"
              /\ Len(agent.reply[n].lines) = Len(retr.docs)
              /\ \A i \in 1..Len(retr.docs) :
                    agent.reply[n].lines[i] = SourceLine(retr.docs[i])

\* the model wrote the placeholder but no 'Sources:'; the reply got the
\* section appended, with a line for each of two retained chunks
C23_Witness ==
    /\ op = "run" /\ agent.returned /\ ~agent.no_context
    /\ ~HasSources(agent.llm_text)
    /\ \E i \in 1..Len(agent.llm_text) : agent.llm_text[i].kind = "[SOURCES]"
    /\ HasSources(agent.reply)
    /\ Len(retr.docs) = 2
    /\ Len(agent.reply[Len(agent.reply)].lines) = 2

\* route returned a decision
Routed == router.pc = "returned" /\ router.raised = "none"

\* C24: with last_agent technical or billing and a confidence below 0.7,
\* route returns last_agent whatever the category; with any other
\* last_agent, a confidence below 0.5 or a category other than technical
\* and billing gives fallback.
C24_RouterSticky ==
    Routed =>
        /\ (router.last_agent \in Specialists
               /\ router.classification.confidence < 70) =>
                router.route = router.last_agent
        /\ (router.last_agent \notin Specialists
               /\ (router.classification.confidence < 50
                      \/ router.classification.category \notin Specialists)) =>
                router.route = "fallback"

\* billing classified at 0.69 in a technical conversation stayed technical
C24_Witness ==
    /\ Routed
    /\ router.last_agent = "technical"
    /\ router.classification.category = "billing"
    /\ router.classification.confidence = 69
    /\ router.route = "technical"

\* C25: a classification of confidence 0.7 or more in technical or billing
\* is routed to its category, whatever last_agent and the history are.
C25_RouterSwitches ==
    (Routed /\ router.classification.confidence >= 70
            /\ router.classification.category \in Specialists) =>
        router.route = router.classification.category

\* billing classified at 0.7 in an active technical conversation (an
\* assistant message among the last four) switched to billing
C25_Witness ==
    /\ Routed
    /\ router.last_agent = "technical"
    /\ HasRecentAgentContext(router.history, router.last_agent)
    /\ router.classification.category = "billing"
    /\ router.classification.confidence = 70
    /\ router.route = "billing"

\* the response is not a well-formed classification
Malformed(response) ==
    \/ response.kind # "object"
    \/ response.confidence.t \in {"absent", "null", "str"}

\* C26: for a response that is not a well-formed classification (no JSON,
\* no JSON object, a missing, null or non-numeric confidence) the
\* classification is 'unknown' with confidence 0.0 and route returns a
\* decision.
C26_MalformedIsUnknown ==
    (router.pc = "returned" /\ Malformed(router.response)) =>
        /\ router.raised = "none"
        /\ router.classification = [category |-> "unknown", confidence |-> 0]
        /\ router.route \in Routes

\* C27: handle_request ends by returning, for every behaviour of the
\* language model: it invokes the model at most 5 times, executes every
\* tool call of a response in order before the next invocation, returns
\* the content of the first response without tool calls, and returns the
\* fixed clarification when all 5 responses ask for tools.
C27_HandleRequestReturns ==
    /\ billing.llm_calls <= MaxIterations
    /\ billing.pc # "failed"
    /\ Len(billing.executed) = Len(billing.requested)
    /\ \A i \in 1..Len(billing.executed) :
          /\ billing.executed[i].call = billing.requested[i]
          /\ billing.executed[i].raised = "none"
    /\ (billing.pc = "returned" /\ billing.requested = <<>>) =>
          billing.answer = "content"
    /\ (billing.pc = "returned" /\ billing.requested # <<>>) =>
          billing.answer = "clarify" /\ billing.llm_calls = MaxIterations

====
